---- MODULE Spec2Model ----
(***************************************************************************)
(* The listeners of geniusrise-listeners (Kafka, RabbitMQ, RedisPubSub,    *)
(* RedisStream, Kinesis, ZeroMQ, RESTAPIPoll) as one state machine.  One   *)
(* behaviour follows one connector identity: the adapter is chosen in      *)
(* Init, the transport holds a growing log of messages, the sink and the   *)
(* state store are the two external collaborators.  Every call that can    *)
(* raise in the source (connect, fetch, json.loads, output.save,           *)
(* get_state, set_state) has both outcomes here.                           *)
(***************************************************************************)
EXTENDS Integers, Sequences, FiniteSets, TLC

\* ---------------------------------------------------------------- bounds
MaxMsgs == 2          \* messages the transport ever holds
MaxDelivered == 4     \* delivery events per run (Kinesis re-reads a batch)
MaxFetchErrors == 1   \* raising fetch calls per run
MaxRuns == 2          \* runs of the RedisStream listener on one identity
MaxListeners == 2     \* listeners that share one identity

\* ------------------------------------------------------ program constants
KinesisLimit == 100   \* get_records(..., Limit=100)

Adapters == {"Kafka", "RabbitMQ", "RedisPubSub", "RedisStream", "Kinesis", "ZeroMQ"}

\* last_id is None (no explicit argument, nothing persisted)
NoId == -1

\* How a get_state / set_state pair can go: both return, get_state raises,
\* or get_state returns and set_state raises before anything is written.
StoreFault == {"ok", "get", "set"}

VARIABLES
    adapter,        \* the listener class of this connector
    syntax,         \* ZeroMQ.listen(syntax=...)
    socket_type,    \* ZeroMQ.listen(socket_type=...)
    argLastId,      \* RedisStream._listen(last_id=...), NoId for None
    run,            \* how many times listen has been started on this identity
    pc,             \* "start" | "running" | "returned" | "raised"
    log,            \* the transport's messages: TRUE = decodable payload
    pos,            \* messages the transport has handed over (Kafka, RabbitMQ, RedisPubSub, ZeroMQ)
    shard_iterator, \* Kinesis: the local shard_iterator, a position in the shard
    response,       \* Kinesis: the records of the current response still to process, and NextShardIterator
    last_id,        \* RedisStream: the local last_id
    result,         \* RedisStream: the entries of the current xread result still to process
    current_state,  \* RedisStream: the local current_state dict
    store,          \* the state store's entry for self.id
    delivered,      \* history: indices of the messages the transport returned, in order
    saveCalls,      \* history: the output.save calls, [id, ok], in order
    last,           \* history: what the last step did
    storeFaulted,   \* history: a get_state/set_state call has raised in this run
    fetchErrors,    \* history: fetch calls that raised in this run
    session,        \* the transport session of this run: "none" | "open" | "closed"
    prevSink,       \* history: the entries the sink received in the previous run
    cancelled,      \* the external cancellation signal has been set
    listeners,      \* two listeners on one identity: each one's position and local state
    accounted,      \* two listeners on one identity: messages whose accounting has finished
    outstanding,    \* RedisStream: xread calls handed to the executor that have not returned
    lastForwarded   \* RedisStream: the last entry of this run saved and written by the success path

config == <<adapter, syntax, socket_type>>
kinesisLocals == <<shard_iterator, response>>
redisLocals == <<last_id, result, current_state, outstanding, lastForwarded>>
others == <<cancelled, listeners, accounted>>
vars == <<adapter, syntax, socket_type, argLastId, run, pc, log, pos, shard_iterator,
          response, last_id, result, current_state, store, delivered, saveCalls, last,
          storeFaulted, fetchErrors, session, prevSink, cancelled, listeners, accounted,
          outstanding, lastForwarded>>

\* ------------------------------------------------------------ state store
\* No entry for self.id: get_state returns None.
NoState == [present |-> FALSE, success_count |-> 0, failure_count |-> 0, last_id |-> NoId]

GetStateOrDefault_CountsAbsence(st, d) ==
    IF st.present THEN st
    ELSE [present |-> TRUE, success_count |-> 0, failure_count |-> 1, last_id |-> d]

\* self.state.get_state(self.id) or {"success_count": 0, "failure_count": 0[, "last_id": d]}
GetStateOrDefault(st, d) ==
    IF st.present THEN st
    ELSE [present |-> TRUE, success_count |-> 0, failure_count |-> 0, last_id |-> d]

\* current_state["success_count"] += 1
IncSuccess(st) == [st EXCEPT !.success_count = @ + 1]

IncFailure_Twice(st) == [st EXCEPT !.failure_count = @ + 2]

\* current_state["failure_count"] += 1
IncFailure(st) == [st EXCEPT !.failure_count = @ + 1]

\* The success accounting of the adapters without a cursor:
\* get_state or default, success_count += 1, set_state.
RecordSuccess(st) == IncSuccess(GetStateOrDefault(st, NoId))

\* The failure accounting of the except blocks: get_state or default,
\* failure_count += 1, set_state.
RecordFailure(st) == IncFailure(GetStateOrDefault(st, NoId))

\* ------------------------------------------------------------- histories
Last(s) == s[Len(s)]

RECURSIVE Ids(_)
Ids(calls) == IF calls = <<>> THEN <<>> ELSE <<Head(calls).id>> \o Ids(Tail(calls))

IsOk(c) == c.ok

Elems(s) == {s[k] : k \in DOMAIN s}

\* The messages the sink has received: the save calls that returned.
SinkReceived == Ids(SelectSeq(saveCalls, IsOk))

\* --------------------------------------------------------------- handler
\* One pass of the try/except that Kafka, RabbitMQ, RedisPubSub, Kinesis and
\* ZeroMQ wrap around a message:
\*   try:    data = decode(message); output.save(...);
\*           get_state or default; success_count += 1; set_state
\*   except: get_state or default; failure_count += 1; set_state
\* wf: the payload decodes; sinkOk: save returns; f1, f2: how the state
\* store behaves in the try and in the except.  An exception raised inside
\* the except block leaves the handler ("escaped").
Handle_CountsBeforeSave(st, wf, sinkOk, f1, f2) ==
    LET counted == IF wf /\ f1 = "ok" THEN RecordSuccess(st) ELSE st
        success == wf /\ sinkOk /\ f1 = "ok"
    IN  IF success
        THEN [store |-> counted, outcome |-> "success", faulted |-> FALSE]
        ELSE IF f2 = "ok"
        THEN [store |-> RecordFailure(counted),
              outcome |-> IF ~wf THEN "failure_decode"
                          ELSE IF ~sinkOk THEN "failure_sink" ELSE "failure_state",
              faulted |-> wf /\ sinkOk]
        ELSE [store |-> counted, outcome |-> "escaped", faulted |-> TRUE]

Handle(st, wf, sinkOk, f1, f2) ==
    LET accepted == wf /\ sinkOk
        success == accepted /\ f1 = "ok"
    IN  IF success
        THEN [store |-> RecordSuccess(st), outcome |-> "success", faulted |-> FALSE]
        ELSE IF f2 = "ok"
        THEN [store |-> RecordFailure(st),
              outcome |-> IF ~wf THEN "failure_decode"
                          ELSE IF ~sinkOk THEN "failure_sink" ELSE "failure_state",
              faulted |-> accepted]
        ELSE [store |-> st, outcome |-> "escaped", faulted |-> TRUE]

\* A fetch or connect call raised inside a try whose except block does the
\* failure accounting.
HandleRaise(st, f2) ==
    IF f2 = "ok"
    THEN [store |-> RecordFailure(st), outcome |-> "fetch_error", faulted |-> FALSE]
    ELSE [store |-> st, outcome |-> "escaped", faulted |-> TRUE]

\* output.save is called once decode has returned.
SaveCall(i, wf, sinkOk) == IF wf THEN <<[id |-> i, ok |-> sinkOk]>> ELSE <<>>

\* ------------------------------------------------------------ environment
\* The transport gets one more message.  A Redis stream entry is a field
\* map that RedisStream forwards without decoding, so it is never malformed.
Produce ==
    /\ Len(log) < MaxMsgs
    /\ \E wf \in BOOLEAN :
        /\ adapter = "RedisStream" => wf
        /\ log' = Append(log, wf)
    /\ UNCHANGED <<config, others, session, prevSink, argLastId, run, pc, pos, kinesisLocals, redisLocals, store,
                   delivered, saveCalls, last, storeFaulted, fetchErrors>>

\* ------------------------------------------------------------------ Kafka
\* consumer = Consumer(config); consumer.subscribe([topic]) -- outside any try.
KafkaConnect ==
    /\ adapter = "Kafka" /\ pc = "start"
    /\ \E ok \in BOOLEAN :
        /\ pc' = IF ok THEN "running" ELSE "raised"
        /\ last' = IF ok THEN "connected" ELSE "connect_error"
        /\ session' = IF ok THEN "open" ELSE session
    /\ UNCHANGED <<config, others, prevSink, argLastId, run, log, pos, kinesisLocals, redisLocals, store,
                   delivered, saveCalls, storeFaulted, fetchErrors>>

KafkaPollNone_Counted ==
    /\ adapter = "Kafka" /\ pc = "running"
    /\ store.failure_count < MaxDelivered
    /\ last' = "none"
    /\ store' = RecordFailure(store)
    /\ UNCHANGED <<config, others, session, prevSink, argLastId, run, pc, log, pos, kinesisLocals, redisLocals,
                   delivered, saveCalls, storeFaulted, fetchErrors>>

\* message = consumer.poll(1.0); if message is None: continue
KafkaPollNone ==
    /\ adapter = "Kafka" /\ pc = "running"
    /\ last' = "none"
    /\ UNCHANGED <<config, others, session, prevSink, argLastId, run, pc, log, pos, kinesisLocals, redisLocals, store,
                   delivered, saveCalls, storeFaulted, fetchErrors>>

\* message.error() with code _PARTITION_EOF: logged.
KafkaPollEOF ==
    /\ adapter = "Kafka" /\ pc = "running"
    /\ pos = Len(log)
    /\ last' = "eof"
    /\ UNCHANGED <<config, others, session, prevSink, argLastId, run, pc, log, pos, kinesisLocals, redisLocals, store,
                   delivered, saveCalls, storeFaulted, fetchErrors>>

\* message.error() with any other code: logged, nothing else.
KafkaPollErrorEvent ==
    /\ adapter = "Kafka" /\ pc = "running"
    /\ last' = "error_event"
    /\ UNCHANGED <<config, others, session, prevSink, argLastId, run, pc, log, pos, kinesisLocals, redisLocals, store,
                   delivered, saveCalls, storeFaulted, fetchErrors>>

\* consumer.poll raises: caught by the except inside the while loop.
KafkaPollRaises ==
    /\ adapter = "Kafka" /\ pc = "running"
    /\ fetchErrors < MaxFetchErrors
    /\ \E f2 \in StoreFault :
        LET h == HandleRaise(store, f2) IN
        /\ store' = h.store
        /\ last' = h.outcome
        /\ pc' = IF h.outcome = "escaped" THEN "raised" ELSE "running"
        /\ storeFaulted' = (storeFaulted \/ h.faulted)
    /\ fetchErrors' = fetchErrors + 1
    /\ UNCHANGED <<config, others, session, prevSink, argLastId, run, log, pos, kinesisLocals, redisLocals,
                   delivered, saveCalls>>

\* poll returns a message: output.save(json.loads(message.value())), accounting.
KafkaPollMessage ==
    /\ adapter = "Kafka" /\ pc = "running"
    /\ pos < Len(log) /\ Len(delivered) < MaxDelivered
    /\ \E sinkOk \in BOOLEAN, f1 \in StoreFault, f2 \in StoreFault :
        LET i == pos + 1
            h == Handle(store, log[i], sinkOk, f1, f2)
        IN  /\ pos' = i
            /\ delivered' = Append(delivered, i)
            /\ saveCalls' = saveCalls \o SaveCall(i, log[i], sinkOk)
            /\ store' = h.store
            /\ last' = h.outcome
            /\ pc' = IF h.outcome = "escaped" THEN "raised" ELSE "running"
            /\ storeFaulted' = (storeFaulted \/ h.faulted)
    /\ UNCHANGED <<config, others, session, prevSink, argLastId, run, log, kinesisLocals, redisLocals, fetchErrors>>

Kafka ==
    \/ KafkaConnect
    \/ KafkaPollNone
    \/ KafkaPollEOF
    \/ KafkaPollErrorEvent
    \/ KafkaPollRaises
    \/ KafkaPollMessage

\* --------------------------------------------------------------- RabbitMQ
\* The except block of RabbitMQ.listen: failure accounting, then listen
\* returns; an exception raised by the accounting itself reaches the caller.
RabbitMQListenExcept(st, f3) ==
    IF f3 = "ok"
    THEN [store |-> RecordFailure(st), pc |-> "returned"]
    ELSE [store |-> st, pc |-> "raised"]

\* BlockingConnection, channel, queue_declare, basic_consume -- inside the try
\* of listen, so a failure is accounted and listen returns.
RabbitMQConnect ==
    /\ adapter = "RabbitMQ" /\ pc = "start"
    /\ \/ /\ pc' = "running"
          /\ last' = "connected"
          /\ session' = "open"
          /\ UNCHANGED <<store, storeFaulted>>
       \/ \E f3 \in StoreFault :
            LET x == RabbitMQListenExcept(store, f3) IN
            /\ store' = x.store
            /\ pc' = x.pc
            /\ last' = "connect_error"
            /\ storeFaulted' = (storeFaulted \/ f3 # "ok")
            /\ UNCHANGED session
    /\ UNCHANGED <<config, others, prevSink, argLastId, run, log, pos, kinesisLocals, redisLocals,
                   delivered, saveCalls, fetchErrors>>

\* channel.start_consuming() raises (connection lost): the except of listen.
RabbitMQConsumeRaises ==
    /\ adapter = "RabbitMQ" /\ pc = "running"
    /\ fetchErrors < MaxFetchErrors
    /\ \E f3 \in StoreFault :
        LET x == RabbitMQListenExcept(store, f3) IN
        /\ store' = x.store
        /\ pc' = x.pc
        /\ storeFaulted' = (storeFaulted \/ f3 # "ok")
    /\ last' = "fetch_error"
    /\ fetchErrors' = fetchErrors + 1
    /\ UNCHANGED <<config, others, session, prevSink, argLastId, run, log, pos, kinesisLocals, redisLocals,
                   delivered, saveCalls>>

\* start_consuming delivers a message to _callback.  An exception that
\* escapes _callback leaves start_consuming and lands in the except of listen.
RabbitMQ_callback ==
    /\ adapter = "RabbitMQ" /\ pc = "running"
    /\ pos < Len(log) /\ Len(delivered) < MaxDelivered
    /\ \E sinkOk \in BOOLEAN, f1 \in StoreFault, f2 \in StoreFault, f3 \in StoreFault :
        LET i == pos + 1
            h == Handle(store, log[i], sinkOk, f1, f2)
            x == RabbitMQListenExcept(h.store, f3)
        IN  /\ pos' = i
            /\ delivered' = Append(delivered, i)
            /\ saveCalls' = saveCalls \o SaveCall(i, log[i], sinkOk)
            /\ last' = h.outcome
            /\ store' = IF h.outcome = "escaped" THEN x.store ELSE h.store
            /\ pc' = IF h.outcome = "escaped" THEN x.pc ELSE "running"
            /\ storeFaulted' = (storeFaulted \/ h.faulted)
    /\ UNCHANGED <<config, others, session, prevSink, argLastId, run, log, kinesisLocals, redisLocals, fetchErrors>>

RabbitMQ ==
    \/ RabbitMQConnect
    \/ RabbitMQConsumeRaises
    \/ RabbitMQ_callback

\* ------------------------------------------------------------ RedisPubSub
\* StrictRedis(...), pubsub(), subscribe(channel) -- outside any try.
RedisPubSubConnect ==
    /\ adapter = "RedisPubSub" /\ pc = "start"
    /\ \E ok \in BOOLEAN :
        /\ pc' = IF ok THEN "running" ELSE "raised"
        /\ last' = IF ok THEN "connected" ELSE "connect_error"
        /\ session' = IF ok THEN "open" ELSE session
    /\ UNCHANGED <<config, others, prevSink, argLastId, run, log, pos, kinesisLocals, redisLocals, store,
                   delivered, saveCalls, storeFaulted, fetchErrors>>

\* pubsub.listen() yields an item whose type is not "message" (the
\* subscribe confirmation): the if is false, nothing happens.
RedisPubSubOther ==
    /\ adapter = "RedisPubSub" /\ pc = "running"
    /\ last' = "not_a_message"
    /\ UNCHANGED <<config, others, session, prevSink, argLastId, run, pc, log, pos, kinesisLocals, redisLocals, store,
                   delivered, saveCalls, storeFaulted, fetchErrors>>

\* The generator pubsub.listen() raises: the for statement is outside the try.
RedisPubSubListenRaises ==
    /\ adapter = "RedisPubSub" /\ pc = "running"
    /\ fetchErrors < MaxFetchErrors
    /\ pc' = "raised"
    /\ last' = "fetch_error"
    /\ fetchErrors' = fetchErrors + 1
    /\ UNCHANGED <<config, others, session, prevSink, argLastId, run, log, pos, kinesisLocals, redisLocals, store,
                   delivered, saveCalls, storeFaulted>>

\* pubsub.listen() yields a message of type "message".
RedisPubSubMessage ==
    /\ adapter = "RedisPubSub" /\ pc = "running"
    /\ pos < Len(log) /\ Len(delivered) < MaxDelivered
    /\ \E sinkOk \in BOOLEAN, f1 \in StoreFault, f2 \in StoreFault :
        LET i == pos + 1
            h == Handle(store, log[i], sinkOk, f1, f2)
        IN  /\ pos' = i
            /\ delivered' = Append(delivered, i)
            /\ saveCalls' = saveCalls \o SaveCall(i, log[i], sinkOk)
            /\ store' = h.store
            /\ last' = h.outcome
            /\ pc' = IF h.outcome = "escaped" THEN "raised" ELSE "running"
            /\ storeFaulted' = (storeFaulted \/ h.faulted)
    /\ UNCHANGED <<config, others, session, prevSink, argLastId, run, log, kinesisLocals, redisLocals, fetchErrors>>

RedisPubSub ==
    \/ RedisPubSubConnect
    \/ RedisPubSubOther
    \/ RedisPubSubListenRaises
    \/ RedisPubSubMessage

\* ----------------------------------------------------------------- ZeroMQ
\* data = json.loads(message.split(" ", 1)[1]) if syntax == "json" else message
ZeroMQDecodes(syn, wf) == syn # "json" \/ wf

ZeroMQConnect_AnyType ==
    /\ adapter = "ZeroMQ" /\ pc = "start"
    /\ \E ok \in BOOLEAN :
        /\ pc' = IF ok THEN "running" ELSE "raised"
        /\ last' = IF ok THEN "connected" ELSE "connect_error"
        /\ session' = IF ok THEN "open" ELSE session
    /\ UNCHANGED <<config, others, prevSink, argLastId, run, log, pos, kinesisLocals, redisLocals, store,
                   delivered, saveCalls, storeFaulted, fetchErrors>>

\* context.socket / connect / setsockopt_string, or ValueError for a socket
\* type other than "SUB" -- outside the try.
ZeroMQConnect ==
    /\ adapter = "ZeroMQ" /\ pc = "start"
    /\ \E ok \in BOOLEAN :
        LET up == socket_type = "SUB" /\ ok IN
        /\ pc' = IF up THEN "running" ELSE "raised"
        /\ last' = IF up THEN "connected"
                   ELSE IF socket_type = "SUB" THEN "connect_error" ELSE "config_error"
        /\ session' = IF up THEN "open" ELSE session
    /\ UNCHANGED <<config, others, prevSink, argLastId, run, log, pos, kinesisLocals, redisLocals, store,
                   delivered, saveCalls, storeFaulted, fetchErrors>>

\* socket.recv_string() raises: the except that encloses the while loop.
ZeroMQRecvRaises ==
    /\ adapter = "ZeroMQ" /\ pc = "running"
    /\ fetchErrors < MaxFetchErrors
    /\ \E f2 \in StoreFault :
        LET h == HandleRaise(store, f2) IN
        /\ store' = h.store
        /\ last' = h.outcome
        /\ pc' = IF h.outcome = "escaped" THEN "raised" ELSE "returned"
        /\ storeFaulted' = (storeFaulted \/ h.faulted)
    /\ fetchErrors' = fetchErrors + 1
    /\ UNCHANGED <<config, others, session, prevSink, argLastId, run, log, pos, kinesisLocals, redisLocals,
                   delivered, saveCalls>>

ZeroMQAfter_Continue(outcome) ==
    IF outcome = "escaped" THEN "raised" ELSE "running"

\* Where listen is after one pass of the loop body: the try encloses the
\* while, so the except block is followed by the end of listen.
ZeroMQAfter(outcome) ==
    IF outcome = "success" THEN "running"
    ELSE IF outcome = "escaped" THEN "raised" ELSE "returned"

\* recv_string returns one message.
ZeroMQRecv ==
    /\ adapter = "ZeroMQ" /\ pc = "running"
    /\ pos < Len(log) /\ Len(delivered) < MaxDelivered
    /\ \E sinkOk \in BOOLEAN, f1 \in StoreFault, f2 \in StoreFault :
        LET i == pos + 1
            wf == ZeroMQDecodes(syntax, log[i])
            h == Handle(store, wf, sinkOk, f1, f2)
        IN  /\ pos' = i
            /\ delivered' = Append(delivered, i)
            /\ saveCalls' = saveCalls \o SaveCall(i, wf, sinkOk)
            /\ store' = h.store
            /\ last' = h.outcome
            /\ pc' = ZeroMQAfter(h.outcome)
            /\ storeFaulted' = (storeFaulted \/ h.faulted)
    /\ UNCHANGED <<config, others, session, prevSink, argLastId, run, log, kinesisLocals, redisLocals, fetchErrors>>

ZeroMQ ==
    \/ ZeroMQConnect
    \/ ZeroMQRecvRaises
    \/ ZeroMQRecv

\* ---------------------------------------------------------------- Kinesis
Min(a, b) == IF a <= b THEN a ELSE b

\* The positions i+1 .. j of the transport's log, in order.
Range(i, j) == [k \in 1..(IF j > i THEN j - i ELSE 0) |-> i + k]

\* get_records(ShardIterator=it, Limit=100)["Records"]: the records after
\* the iterator's position, oldest first, at most Limit of them.
KinesisRecords(it) == Range(it, Min(it + KinesisLimit, Len(log)))

NoResponse == [Records |-> <<>>, NextShardIterator |-> 0]

\* get_shard_iterator(..., ShardIteratorType="LATEST") -- outside any try:
\* the iterator points after the last record the shard holds now.
KinesisConnect ==
    /\ adapter = "Kinesis" /\ pc = "start"
    /\ \E ok \in BOOLEAN :
        /\ pc' = IF ok THEN "running" ELSE "raised"
        /\ last' = IF ok THEN "connected" ELSE "connect_error"
        /\ shard_iterator' = IF ok THEN Len(log) ELSE shard_iterator
    /\ UNCHANGED <<config, others, session, prevSink, argLastId, run, log, pos, response, redisLocals, store,
                   delivered, saveCalls, storeFaulted, fetchErrors>>

\* response = get_records(...) at the top of the while loop.  With no
\* records the for loop does nothing and shard_iterator takes the next token.
KinesisGetRecords ==
    /\ adapter = "Kinesis" /\ pc = "running" /\ response.Records = <<>>
    /\ LET recs == KinesisRecords(shard_iterator) IN
        /\ Len(delivered) + Len(recs) <= MaxDelivered
        /\ delivered' = delivered \o recs
        /\ IF recs = <<>>
           THEN /\ last' = "empty"
                /\ UNCHANGED <<shard_iterator, response>>
           ELSE /\ last' = "batch"
                /\ response' = [Records |-> recs, NextShardIterator |-> Last(recs)]
                /\ UNCHANGED shard_iterator
    /\ UNCHANGED <<config, others, session, prevSink, argLastId, run, pc, log, pos, redisLocals, store,
                   saveCalls, storeFaulted, fetchErrors>>

\* get_records raises: the except inside the while loop; shard_iterator stays.
KinesisGetRecordsRaises ==
    /\ adapter = "Kinesis" /\ pc = "running" /\ response.Records = <<>>
    /\ fetchErrors < MaxFetchErrors
    /\ \E f2 \in StoreFault :
        LET h == HandleRaise(store, f2) IN
        /\ store' = h.store
        /\ last' = h.outcome
        /\ pc' = IF h.outcome = "escaped" THEN "raised" ELSE "running"
        /\ storeFaulted' = (storeFaulted \/ h.faulted)
    /\ fetchErrors' = fetchErrors + 1
    /\ UNCHANGED <<config, others, session, prevSink, argLastId, run, log, pos, kinesisLocals, redisLocals,
                   delivered, saveCalls>>

NextRecord_Newest(records) == records[Len(records)]

\* for record in response["Records"] / for msg_id, fields in messages:
\* the loop takes the records in the order of the response.
NextRecord(records) == Head(records)

KinesisIteratorAfter_AnyOutcome(it, resp, outcome) ==
    IF Len(resp.Records) = 1 THEN resp.NextShardIterator ELSE it

\* shard_iterator after the body of the for loop has handled one record:
\* it is assigned only after the last record of the batch succeeded.
KinesisIteratorAfter(it, resp, outcome) ==
    IF outcome = "success" /\ Len(resp.Records) = 1 THEN resp.NextShardIterator ELSE it

\* One pass of the for loop over response["Records"].  A failure leaves the
\* for loop through the except block, and the while loop fetches again.
KinesisRecord ==
    /\ adapter = "Kinesis" /\ pc = "running" /\ response.Records # <<>>
    /\ \E sinkOk \in BOOLEAN, f1 \in StoreFault, f2 \in StoreFault :
        LET i == NextRecord(response.Records)
            h == Handle(store, log[i], sinkOk, f1, f2)
        IN  /\ saveCalls' = saveCalls \o SaveCall(i, log[i], sinkOk)
            /\ store' = h.store
            /\ last' = h.outcome
            /\ pc' = IF h.outcome = "escaped" THEN "raised" ELSE "running"
            /\ storeFaulted' = (storeFaulted \/ h.faulted)
            /\ shard_iterator' = KinesisIteratorAfter(shard_iterator, response, h.outcome)
            /\ response' = IF h.outcome = "success" /\ Len(response.Records) > 1
                           THEN [response EXCEPT !.Records = Tail(@)]
                           ELSE NoResponse
    /\ UNCHANGED <<config, others, session, prevSink, argLastId, run, log, pos, redisLocals, delivered, fetchErrors>>

Kinesis ==
    \/ KinesisConnect
    \/ KinesisGetRecords
    \/ KinesisGetRecordsRaises
    \/ KinesisRecord

\* ------------------------------------------------------------ RedisStream
\* The outer except of _listen: get_state or default (with the local
\* last_id), failure_count += 1, set_state; then _listen returns.
RedisStreamOuterExcept(st, lid, f3) ==
    IF f3 = "ok"
    THEN [store |-> IncFailure(GetStateOrDefault(st, lid)), pc |-> "returned"]
    ELSE [store |-> st, pc |-> "raised"]

RedisStreamInnerExcept_ResetsId(cur, st, lid, f2, f3) ==
    LET cur2 == [IncFailure(cur) EXCEPT !.last_id = NoId]
        outer == RedisStreamOuterExcept(st, lid, f3)
    IN  IF f2 = "ok"
        THEN [store |-> cur2, current_state |-> cur2, pc |-> "running"]
        ELSE [store |-> outer.store, current_state |-> cur2, pc |-> outer.pc]

RedisStreamInnerExcept_WritesCursor(cur, st, lid, f2, f3) ==
    LET cur2 == [IncFailure(cur) EXCEPT !.last_id = lid]
        outer == RedisStreamOuterExcept(st, lid, f3)
    IN  IF f2 = "ok"
        THEN [store |-> cur2, current_state |-> cur2, pc |-> "running"]
        ELSE [store |-> outer.store, current_state |-> cur2, pc |-> outer.pc]

\* The except inside the while loop: no get_state, the local current_state
\* is incremented and written; if that set_state raises the outer except runs.
RedisStreamInnerExcept(cur, st, lid, f2, f3) ==
    LET cur2 == IncFailure(cur)
        outer == RedisStreamOuterExcept(st, lid, f3)
    IN  IF f2 = "ok"
        THEN [store |-> cur2, current_state |-> cur2, pc |-> "running"]
        ELSE [store |-> outer.store, current_state |-> cur2, pc |-> outer.pc]

StartId_FromZero(cur, arg) == IF arg = NoId THEN 0 ELSE arg

StartId_PersistedFirst(cur, arg) ==
    IF cur.last_id # NoId THEN cur.last_id
    ELSE IF arg = NoId THEN 0 ELSE arg

\* The start position: the persisted last_id when no argument is given and
\* the state has one, else "0" without an argument, else the argument.
StartId(cur, arg) ==
    IF arg = NoId /\ cur.last_id # NoId THEN cur.last_id
    ELSE IF arg = NoId THEN 0 ELSE arg

\* _listen up to the while loop: StrictRedis(...) (no connection yet),
\* get_state or default, the choice of last_id.
RedisStreamStart ==
    /\ adapter = "RedisStream" /\ pc = "start"
    /\ \/ LET cur == GetStateOrDefault(store, argLastId) IN
          /\ current_state' = cur
          /\ last_id' = StartId(cur, argLastId)
          /\ pc' = "running"
          /\ last' = "connected"
          /\ UNCHANGED <<store, storeFaulted>>
       \/ \E f3 \in StoreFault :
            LET outer == RedisStreamOuterExcept(store, argLastId, f3) IN
            /\ store' = outer.store
            /\ pc' = outer.pc
            /\ last' = "escaped"
            /\ storeFaulted' = TRUE
            /\ UNCHANGED <<last_id, current_state>>
    /\ UNCHANGED <<config, others, session, prevSink, argLastId, run, log, pos, kinesisLocals, result,
                   outstanding, lastForwarded, delivered, saveCalls, fetchErrors>>

\* xread: the entries of the stream after last_id, oldest first.  The call
\* passes "count" and "block" as stream names of the streams dict, so the
\* command carries neither COUNT nor BLOCK.
XRead(lid) == Range(lid, Len(log))

RedisStreamXReadSubmit_NotAwaited ==
    /\ adapter = "RedisStream" /\ pc = "running" /\ result = <<>>
    /\ outstanding <= 1
    /\ outstanding' = outstanding + 1
    /\ UNCHANGED <<config, others, session, prevSink, argLastId, run, pc, log, pos, kinesisLocals,
                   last_id, result, current_state, store, delivered, saveCalls, last,
                   storeFaulted, fetchErrors, lastForwarded>>

\* run_in_executor(None, self.redis.xread, {...}) at the top of the while
\* loop: the read goes to the executor's thread and the coroutine awaits it.
\* The loop comes here only from the start, from the end of the for loops,
\* or from the inner except, each followed by nothing but a sleep.
RedisStreamXReadSubmit ==
    /\ adapter = "RedisStream" /\ pc = "running" /\ result = <<>>
    /\ outstanding = 0
    /\ outstanding' = outstanding + 1
    /\ UNCHANGED <<config, others, session, prevSink, argLastId, run, pc, log, pos, kinesisLocals,
                   last_id, result, current_state, store, delivered, saveCalls, last,
                   storeFaulted, fetchErrors, lastForwarded>>

\* result = await ...: the read returns; the client connects with its first
\* command.
RedisStreamXRead ==
    /\ adapter = "RedisStream" /\ pc = "running" /\ result = <<>>
    /\ outstanding >= 1
    /\ outstanding' = outstanding - 1
    /\ LET entries == XRead(last_id) IN
        /\ Len(delivered) + Len(entries) <= MaxDelivered
        /\ result' = entries
        /\ delivered' = delivered \o entries
        /\ last' = IF entries = <<>> THEN "empty" ELSE "batch"
    /\ session' = "open"
    /\ UNCHANGED <<config, others, prevSink, argLastId, run, pc, log, pos, kinesisLocals, last_id,
                   current_state, store, saveCalls, storeFaulted, fetchErrors,
                   lastForwarded>>

\* xread raises: the await raises, the except inside the while loop runs.
RedisStreamXReadRaises ==
    /\ adapter = "RedisStream" /\ pc = "running" /\ result = <<>>
    /\ outstanding >= 1
    /\ outstanding' = outstanding - 1
    /\ fetchErrors < MaxFetchErrors
    /\ \E f2 \in {"ok", "set"}, f3 \in StoreFault :
        LET x == RedisStreamInnerExcept(current_state, store, last_id, f2, f3) IN
        /\ store' = x.store
        /\ current_state' = x.current_state
        /\ pc' = x.pc
        /\ storeFaulted' = (storeFaulted \/ f2 # "ok")
    /\ last' = "fetch_error"
    /\ fetchErrors' = fetchErrors + 1
    /\ UNCHANGED <<config, others, session, prevSink, argLastId, run, log, pos, kinesisLocals, last_id, result,
                   delivered, saveCalls, lastForwarded>>

RedisStreamCursor_AfterSave(lid, m, saved) == IF saved THEN m ELSE lid

\* last_id = msg_id, the first statement of the loop body: the cursor is on
\* the entry before output.save is called, whether or not the save returns.
RedisStreamCursor(lid, m, saved) == m

\* The state the success path builds for entry m: get_state or default,
\* success_count += 1, last_id = m.
RedisStreamSuccessState(st, m) ==
    [IncSuccess(GetStateOrDefault(st, m)) EXCEPT !.last_id = m]

\* One pass of the for loops over the xread result: last_id = msg_id, save,
\* accounting.  A failure leaves the for loops through the inner except.
RedisStreamEntry ==
    /\ adapter = "RedisStream" /\ pc = "running" /\ result # <<>>
    /\ \E sinkOk \in BOOLEAN, f1 \in StoreFault, f2 \in {"ok", "set"}, f3 \in StoreFault :
        LET m == NextRecord(result)
            fresh == RedisStreamSuccessState(store, m)
            cur == IF sinkOk /\ f1 = "set" THEN fresh ELSE current_state
            x == RedisStreamInnerExcept(cur, store, m, f2, f3)
        IN  /\ last_id' = RedisStreamCursor(last_id, m, sinkOk)
            /\ saveCalls' = saveCalls \o SaveCall(m, TRUE, sinkOk)
            /\ IF sinkOk /\ f1 = "ok"
               THEN /\ store' = fresh
                    /\ current_state' = fresh
                    /\ result' = Tail(result)
                    /\ last' = "success"
                    /\ lastForwarded' = m
                    /\ UNCHANGED <<pc, storeFaulted>>
               ELSE /\ store' = x.store
                    /\ current_state' = x.current_state
                    /\ result' = <<>>
                    /\ pc' = x.pc
                    /\ last' = IF f2 # "ok" THEN "escaped"
                               ELSE IF ~sinkOk THEN "failure_sink" ELSE "failure_state"
                    /\ storeFaulted' = (storeFaulted \/ sinkOk \/ f2 # "ok")
                    /\ UNCHANGED lastForwarded
    /\ UNCHANGED <<config, others, session, prevSink, argLastId, run, log, pos, kinesisLocals, delivered,
                   fetchErrors, outstanding>>

RedisStream ==
    \/ RedisStreamStart
    \/ RedisStreamXReadSubmit
    \/ RedisStreamXRead
    \/ RedisStreamXReadRaises
    \/ RedisStreamEntry

\* ------------------------------------------------- RedisStream, restarted
\* The listener's process is stopped inside the for loops, after
\* output.save has returned for entry m and before the state write of the
\* success path: the sink has the entry, the state store has not heard of it.
RedisStreamKilled ==
    /\ adapter = "RedisStream" /\ pc = "running" /\ result # <<>>
    /\ LET m == NextRecord(result) IN
        /\ last_id' = m
        /\ saveCalls' = saveCalls \o SaveCall(m, TRUE, TRUE)
    /\ pc' = "killed"
    /\ last' = "killed"
    /\ UNCHANGED <<config, others, session, prevSink, argLastId, run, log, pos, kinesisLocals, result,
                   current_state, store, delivered, storeFaulted, fetchErrors, outstanding,
                   lastForwarded>>

\* The listener has stopped (between two entries, inside one, or because
\* listen ended) and listen is called again on the same identity: listen
\* passes no last_id to _listen, the locals and the histories of the run
\* start afresh, the state store and the stream stay.
RedisStreamRestart ==
    /\ adapter = "RedisStream" /\ pc # "start"
    /\ run < MaxRuns
    /\ run' = run + 1
    /\ pc' = "start"
    /\ argLastId' = NoId
    /\ last_id' = NoId
    /\ result' = <<>>
    /\ current_state' = NoState
    /\ outstanding' = 0
    /\ lastForwarded' = NoId
    /\ delivered' = <<>>
    /\ saveCalls' = <<>>
    /\ last' = "init"
    /\ storeFaulted' = FALSE
    /\ fetchErrors' = 0
    /\ session' = "none"
    /\ prevSink' = Elems(SinkReceived)
    /\ UNCHANGED <<config, others, log, pos, kinesisLocals, store>>

\* ------------------------------------------------------------ RESTAPIPoll
\* The poller has no session: every poll_api call is one requests.<method>
\* call.  The successive response bodies of the API are the transport's log.
Pollers == {"RESTAPIPoll"}

\* listen enters its while True loop.
RESTAPIPollListen ==
    /\ adapter = "RESTAPIPoll" /\ pc = "start"
    /\ pc' = "running"
    /\ last' = "connected"
    /\ UNCHANGED <<config, others, session, prevSink, argLastId, run, log, pos, kinesisLocals, redisLocals,
                   store, delivered, saveCalls, storeFaulted, fetchErrors>>

RESTAPIPollRequestFails_Counted ==
    /\ adapter = "RESTAPIPoll" /\ pc = "running"
    /\ fetchErrors < MaxFetchErrors
    /\ fetchErrors' = fetchErrors + 1
    /\ last' \in {"http_error", "request_error"}
    /\ store' = RecordFailure(store)
    /\ UNCHANGED <<config, others, session, prevSink, argLastId, run, pc, log, pos, kinesisLocals,
                   redisLocals, delivered, saveCalls, storeFaulted>>

\* The request raises a RequestException, or raise_for_status() raises
\* HTTPError: both except clauses only log, poll_api returns, listen sleeps
\* and polls again.
RESTAPIPollRequestFails ==
    /\ adapter = "RESTAPIPoll" /\ pc = "running"
    /\ fetchErrors < MaxFetchErrors
    /\ fetchErrors' = fetchErrors + 1
    /\ last' \in {"http_error", "request_error"}
    /\ UNCHANGED <<config, others, session, prevSink, argLastId, run, pc, log, pos, kinesisLocals,
                   redisLocals, store, delivered, saveCalls, storeFaulted>>

\* A 2xx response.  response.json() of a body that is not JSON raises an
\* error that is a ValueError in older releases of requests and also a
\* RequestException in newer ones; setup.py pins no release, so the error is
\* taken by "except RequestException" (log only) or by "except Exception"
\* (failure accounting).  Otherwise: enrich, save, success accounting, with
\* the failure accounting of "except Exception" behind it.  An exception
\* raised inside that except block leaves poll_api and listen.
RESTAPIPollResponse ==
    /\ adapter = "RESTAPIPoll" /\ pc = "running"
    /\ pos < Len(log) /\ Len(delivered) < MaxDelivered
    /\ \E sinkOk \in BOOLEAN, f1 \in StoreFault, f2 \in StoreFault, asRequestException \in BOOLEAN :
        LET i == pos + 1
            h == Handle(store, log[i], sinkOk, f1, f2)
            logged == ~log[i] /\ asRequestException
        IN  /\ pos' = i
            /\ delivered' = Append(delivered, i)
            /\ saveCalls' = saveCalls \o SaveCall(i, log[i], sinkOk)
            /\ store' = IF logged THEN store ELSE h.store
            /\ last' = IF logged THEN "request_error" ELSE h.outcome
            /\ pc' = IF ~logged /\ h.outcome = "escaped" THEN "raised" ELSE "running"
            /\ storeFaulted' = (storeFaulted \/ (~logged /\ h.faulted))
    /\ UNCHANGED <<config, others, session, prevSink, argLastId, run, log, kinesisLocals, redisLocals, fetchErrors>>

RESTAPIPoll ==
    \/ RESTAPIPollListen
    \/ RESTAPIPollRequestFails
    \/ RESTAPIPollResponse

\* ------------------------------------------------------------------- spec
InitListener ==
    /\ adapter \in Adapters \cup Pollers
    /\ syntax \in (IF adapter = "ZeroMQ" THEN {"json", "text"} ELSE {"json"})
    /\ socket_type \in (IF adapter = "ZeroMQ" THEN {"SUB", "PUB"} ELSE {"SUB"})
    /\ argLastId \in (IF adapter = "RedisStream" THEN {NoId, 0} ELSE {NoId})
    /\ run = 1
    /\ pc = "start"
    /\ log = <<>>
    /\ pos = 0
    /\ shard_iterator = 0
    /\ response = [Records |-> <<>>, NextShardIterator |-> 0]
    /\ last_id = NoId
    /\ result = <<>>
    /\ current_state = NoState
    /\ store = NoState
    /\ delivered = <<>>
    /\ saveCalls = <<>>
    /\ last = "init"
    /\ storeFaulted = FALSE
    /\ fetchErrors = 0
    /\ session = "none"
    /\ prevSink = {}
    /\ cancelled = FALSE
    /\ outstanding = 0
    /\ lastForwarded = NoId

\* One listener on its identity.
Init ==
    /\ InitListener
    /\ listeners = <<>>
    /\ accounted = 0

Next ==
    \/ Produce
    \/ Kafka
    \/ RabbitMQ
    \/ RedisPubSub
    \/ ZeroMQ
    \/ Kinesis
    \/ RedisStream
    \/ RESTAPIPoll

Spec == Init /\ [][Next]_vars

\* ------------------------------------------------------------ cancellation
\* The embedding application sets its cancellation signal.  No listener
\* reads it: every loop is "while True" (or a blocking iteration) and no
\* listen method takes or tests a signal.
Cancel ==
    /\ ~cancelled
    /\ cancelled' = TRUE
    /\ UNCHANGED <<config, argLastId, run, pc, log, pos, kinesisLocals, redisLocals, store,
                   delivered, saveCalls, last, storeFaulted, fetchErrors, session, prevSink,
                   listeners, accounted>>

NextCancel == Next \/ Cancel

\* The listeners with an application that may set the cancellation signal.
SpecCancel == Init /\ [][NextCancel]_vars

\* ------------------------------------------- listeners sharing an identity
\* Several listeners of one class run with the same self.id on one state
\* store.  Each handles its messages as above; what they share is the
\* accounting, which is two calls: current_state = get_state(self.id) or
\* {...}, then current_state[...] += 1 and set_state(self.id, current_state).
Idle == [pc |-> "idle", outcome |-> "none", current_state |-> NoState]

Accounted_Unchanged(st, outcome) == st

\* current_state["success_count"] += 1 in the try, ["failure_count"] += 1 in
\* the except.
Accounted(st, outcome) == IF outcome = "success" THEN IncSuccess(st) ELSE IncFailure(st)

\* Messages taken from the transport by the listeners so far.
Taken == accounted + Cardinality({k \in DOMAIN listeners : listeners[k].pc # "idle"})

sharedFrame == <<config, argLastId, run, pc, log, pos, kinesisLocals, redisLocals, delivered,
                 saveCalls, last, storeFaulted, fetchErrors, session, prevSink, cancelled>>

\* Listener k handled a message (saved it, or failed on it) and has read the
\* state: the get_state call of the try or of the except.
SharedGetState(k) ==
    /\ listeners[k].pc = "idle"
    /\ Taken < MaxDelivered
    /\ \E outcome \in {"success", "failure"} :
        listeners' = [listeners EXCEPT ![k] =
                        [pc |-> "write", outcome |-> outcome,
                         current_state |-> GetStateOrDefault(store, NoId)]]
    /\ UNCHANGED <<store, accounted, sharedFrame>>

\* Listener k increments its copy and writes it: the set_state call.
SharedSetState(k) ==
    /\ listeners[k].pc = "write"
    /\ store' = Accounted(listeners[k].current_state, listeners[k].outcome)
    /\ listeners' = [listeners EXCEPT ![k] = Idle]
    /\ accounted' = accounted + 1
    /\ UNCHANGED sharedFrame

InitShared ==
    /\ InitListener
    /\ adapter \in {"Kafka", "RabbitMQ"}
    /\ \E n \in 1..MaxListeners : listeners = [k \in 1..n |-> Idle]
    /\ accounted = 0

NextShared ==
    \E k \in DOMAIN listeners :
        \/ SharedGetState(k)
        \/ SharedSetState(k)

SpecShared == InitShared /\ [][NextShared]_vars

\* One RedisStream identity over several runs of its listener.
InitResume == Init /\ adapter = "RedisStream"

NextResume ==
    \/ Produce
    \/ RedisStream
    \/ RedisStreamKilled
    \/ RedisStreamRestart

SpecResume == InitResume /\ [][NextResume]_vars

\* The start of _listen over its inputs: the last_id argument (None or an
\* ID), the state persisted under the identity (none, or one a listener
\* wrote: at least one count, last_id null or an ID of the stream) and the
\* stream.
InitStart ==
    /\ adapter = "RedisStream" /\ syntax = "json" /\ socket_type = "SUB"
    /\ log \in {[k \in 1..n |-> TRUE] : n \in 0..MaxMsgs}
    /\ argLastId \in {NoId} \cup 0..MaxMsgs
    /\ store \in {NoState} \cup
                 {st \in [present : {TRUE}, success_count : 0..1, failure_count : 0..1,
                          last_id : {NoId} \cup 0..Len(log)] :
                      st.success_count + st.failure_count >= 1}
    /\ run = 1 /\ pc = "start" /\ pos = 0
    /\ shard_iterator = 0 /\ response = NoResponse
    /\ last_id = NoId /\ result = <<>> /\ current_state = NoState /\ outstanding = 0
    /\ lastForwarded = NoId
    /\ delivered = <<>> /\ saveCalls = <<>> /\ last = "init"
    /\ storeFaulted = FALSE /\ fetchErrors = 0
    /\ session = "none" /\ prevSink = {} /\ cancelled = FALSE
    /\ listeners = <<>> /\ accounted = 0

NextStart == RedisStreamStart

SpecStart == InitStart /\ [][NextStart]_vars

\* ================================================================= claims
\* ---------------------------------------------------------------- helpers
RECURSIVE IsSubseq(_, _)
\* s can be obtained from t by deleting elements.
IsSubseq(s, t) ==
    IF s = <<>> THEN TRUE
    ELSE IF t = <<>> THEN FALSE
    ELSE IF Head(s) = Head(t) THEN IsSubseq(Tail(s), Tail(t))
    ELSE IsSubseq(s, Tail(t))


Occurrences(s, x) == Cardinality({k \in DOMAIN s : s[k] = x})

\* The payload of message i decodes under this adapter.
Decodes(i) == IF adapter = "ZeroMQ" THEN ZeroMQDecodes(syntax, log[i]) ELSE log[i]

\* The distinct messages the transport has returned, oldest first.
DeliveredOnce == SelectSeq(Range(0, Len(log)), LAMBDA i : i \in Elems(delivered))

WellFormedDelivered == SelectSeq(DeliveredOnce, Decodes)

AllSavesOk == \A k \in DOMAIN saveCalls : saveCalls[k].ok

\* The listener is between two fetches and the transport holds nothing
\* after the messages it has returned.
AllDelivered ==
    /\ response.Records = <<>> /\ result = <<>>
    /\ delivered # <<>> => Last(DeliveredOnce) = Len(log)
    /\ delivered = <<>> => log = <<>>

OneMessageAdapters == {"Kafka", "RabbitMQ", "RedisPubSub"}

\* This step handed message pos' to the handler of a one-message adapter.
MessageStep == adapter \in OneMessageAdapters /\ pos' = pos + 1

\* C1 (as claimed): with a sink that accepts everything and a state store
\* that starts empty and never fails, once the transport has delivered its
\* N messages, M of them malformed, failure_count = M, success_count = N - M
\* and the sink holds the N - M well-formed messages once each, in order.
C1_CountsMatchDelivered ==
    (/\ adapter \in Adapters
     /\ run = 1 /\ ~storeFaulted /\ fetchErrors = 0 /\ last # "connect_error"
     /\ AllSavesOk /\ AllDelivered)
        => /\ store.failure_count = Len(DeliveredOnce) - Len(WellFormedDelivered)
           /\ store.success_count = Len(WellFormedDelivered)
           /\ SinkReceived = WellFormedDelivered

\* C2 (as claimed): in ZeroMQ.listen a message whose decode or save fails is
\* counted and the receive loop goes on.
C2_ZeroMQLoopContinues ==
    (adapter = "ZeroMQ" /\ last \in {"failure_decode", "failure_sink"})
        => pc = "running"

\* C3 (as claimed): in Kinesis.listen a malformed record is counted in
\* failure_count exactly once, so with a working sink and state store
\* failure_count never exceeds the number of malformed records delivered.
C3_KinesisCountsBadRecordOnce ==
    (adapter = "Kinesis" /\ ~storeFaulted /\ fetchErrors = 0 /\ AllSavesOk)
        => store.failure_count <= Len(DeliveredOnce) - Len(WellFormedDelivered)

\* C4: in Kafka, RabbitMQ and RedisPubSub, while the state store works, a
\* message whose decode, enrichment or save raises adds exactly 1 to
\* failure_count, leaves success_count alone and leaves the loop running ...
C4_FailureCountedOnce ==
    (/\ MessageStep
     /\ ~storeFaulted'
     /\ \/ ~log[pos']
        \/ saveCalls' = Append(saveCalls, [id |-> pos', ok |-> FALSE]))
        => /\ store'.present
           /\ store'.failure_count = store.failure_count + 1
           /\ store'.success_count = store.success_count
           /\ SinkReceived' = SinkReceived
           /\ pc' = "running"

\* ... and the message after a failed one is handled normally: when it is
\* well-formed and the sink takes it, it is forwarded and counted a success.
C4_NextMessageHandled ==
    (/\ MessageStep
     /\ ~storeFaulted'
     /\ last \in {"failure_decode", "failure_sink"}
     /\ log[pos']
     /\ saveCalls' = Append(saveCalls, [id |-> pos', ok |-> TRUE]))
        => /\ store'.success_count = store.success_count + 1
           /\ store'.failure_count = store.failure_count
           /\ SinkReceived' = Append(SinkReceived, pos')
           /\ pc' = "running"

C5_SavedAtMostOnce ==
    \A i \in 1..Len(log) : Occurrences(Ids(saveCalls), i) <= 1

\* C6: the messages the sink has received are, in the same order, among
\* the messages the transport returned: the listener never reorders.
C6_SinkFollowsDeliveryOrder == IsSubseq(SinkReceived, delivered)

\* C6 witness: a batch adapter has forwarded messages around a failure.
C6_Witness ==
    /\ adapter \in {"Kinesis", "RedisStream"}
    /\ Len(SinkReceived) >= 2
    /\ \E k \in DOMAIN saveCalls : ~saveCalls[k].ok /\ k < Len(saveCalls)
    /\ store.failure_count >= 1

\* C7 (as claimed): once connecting or a fetch call has raised, listen has
\* raised to its caller (and so never fetches again).
C7_TransportFailureRaises ==
    (fetchErrors > 0 \/ last = "connect_error") => pc = "raised"

\* C8 (as claimed): a fetch call that raises after k messages were forwarded
\* leaves success_count = k and failure_count = 0.
C8_FetchFailureNotCounted ==
    (/\ run = 1 /\ fetchErrors > 0 /\ ~storeFaulted
     /\ AllSavesOk /\ \A k \in DOMAIN delivered : Decodes(delivered[k])
     /\ response.Records = <<>> /\ result = <<>>)
        => /\ store.failure_count = 0
           /\ store.success_count = Len(SinkReceived)

\* An empty fetch: Kafka poll returning None or a partition-EOF notice,
\* Kinesis get_records returning no records, Redis xread returning no entries.
EmptyFetch ==
    \/ KafkaPollNone
    \/ KafkaPollEOF
    \/ KinesisGetRecords /\ KinesisRecords(shard_iterator) = <<>>
    \/ RedisStreamXRead /\ XRead(last_id) = <<>>

\* C9: an empty fetch calls neither the sink nor the state store and leaves
\* the listener running.
C9_EmptyFetchChangesNothing ==
    [][EmptyFetch => UNCHANGED <<store, saveCalls, pc>>]_vars

\* C9 witness: an empty fetch has happened after messages were accounted.
C9_Witness ==
    /\ last \in {"none", "eof", "empty"}
    /\ store.success_count >= 1 /\ store.failure_count >= 1

\* C10: in a RedisStream run started without a last_id argument, no write to
\* the state store lowers the persisted last_id.
C10_LastIdNeverDecreases ==
    [][(adapter = "RedisStream" /\ argLastId = NoId /\ store.present)
            => /\ store'.present
               /\ store'.last_id >= store.last_id]_vars

\* C10 witness: a second run without a last_id argument resumed from a
\* persisted last_id and has written both a success and a failure.
C10_Witness ==
    /\ adapter = "RedisStream" /\ run = 2 /\ argLastId = NoId
    /\ store.last_id >= 2
    /\ last \in {"failure_sink", "fetch_error"}
    /\ saveCalls # <<>> /\ saveCalls[1].ok /\ saveCalls[1].id >= 2

\* --------------------------------------------------------------- C11
\* A RedisStream run that was started without a last_id argument on a
\* persisted last_id begins to read at that last_id.
ResumesFromPersisted ==
    (/\ adapter = "RedisStream" /\ pc = "start" /\ pc' = "running"
     /\ argLastId = NoId /\ store.present /\ store.last_id # NoId)
        => last_id' = store.last_id

\* An xread result holds every entry of the stream after last_id, oldest
\* first, none left out.
ReadsWithoutGap ==
    (adapter = "RedisStream" /\ result = <<>> /\ result' # <<>>)
        => /\ Len(result') = Len(log) - last_id
           /\ \A k \in DOMAIN result' : result'[k] = last_id + k

\* This step called output.save.
SaveStep == saveCalls' # saveCalls /\ saveCalls' # <<>>

\* C11 (as claimed): a RedisStream listener stops at any point between two
\* steps and a new one is started without a last_id argument: it resumes from
\* the persisted last_id, and over both runs no entry is handed to the sink
\* twice and no entry after the persisted cursor is skipped.
C11_ResumeNoDuplicateNoGap ==
    [][/\ ResumesFromPersisted
       /\ ReadsWithoutGap
       /\ (SaveStep /\ adapter = "RedisStream" /\ argLastId = NoId)
            => Last(saveCalls').id \notin prevSink]_vars

\* C11 (amended): the new run resumes from the persisted last_id, skips no
\* entry after it and hands the sink no entry at or before it; an entry that
\* the earlier run saved without completing its state write lies after the
\* persisted last_id and is handed to the sink again.
C11_ResumeAtLeastOnce ==
    [][/\ ResumesFromPersisted
       /\ ReadsWithoutGap
       /\ (SaveStep /\ adapter = "RedisStream" /\ argLastId = NoId)
            => Last(saveCalls').id > store.last_id]_vars

\* C11 witness: the second run, started without a last_id argument after a
\* run that saved and recorded entry 1, has saved and recorded entry 2.
C11_Witness ==
    /\ adapter = "RedisStream" /\ run = 2 /\ argLastId = NoId
    /\ prevSink = {1}
    /\ SinkReceived = <<2>>
    /\ store.last_id = 2 /\ store.success_count = 2

\* --------------------------------------------------------------- C12
\* C12 (as claimed): when get_records returns no records and a new
\* NextShardIterator, Kinesis.listen writes the new token to the state store
\* under its identity and leaves success_count and failure_count as they are.
C12_EmptyBatchPersistsToken ==
    [][(KinesisGetRecords /\ last' = "empty")
            => /\ store'.present
               /\ store'.last_id = shard_iterator'
               /\ store'.success_count = store.success_count
               /\ store'.failure_count = store.failure_count]_vars

\* --------------------------------------------------------------- C13
\* This step is one fetch call of the listener's loop.
FetchStep ==
    \/ KafkaPollNone \/ KafkaPollEOF \/ KafkaPollErrorEvent \/ KafkaPollRaises
    \/ KafkaPollMessage
    \/ ZeroMQRecv \/ ZeroMQRecvRaises
    \/ KinesisGetRecords \/ KinesisGetRecordsRaises
    \/ RedisStreamXRead \/ RedisStreamXReadRaises
    \/ RESTAPIPollRequestFails \/ RESTAPIPollResponse

\* C13 (as claimed): once the cancellation signal is set a listener starts no
\* further fetch; a poller whose signal is set before its second iteration
\* issues one request and no second one.
C13_NoFetchAfterCancel == [][cancelled => ~FetchStep]_vars

\* --------------------------------------------------------------- C14
\* C14 (as claimed): whenever listen ends, by return or by raising, the
\* transport session it opened has been closed.
C14_SessionClosedOnExit == pc \in {"returned", "raised"} => session # "open"

\* --------------------------------------------------------------- C15
\* C15: ZeroMQ.listen with a socket_type other than "SUB" raises to its
\* caller before any socket exists, any receive, any sink call and any
\* state-store call.
C15_BadSocketTypeRaisesFirst ==
    (adapter = "ZeroMQ" /\ socket_type # "SUB" /\ pc # "start")
        => /\ pc = "raised" /\ last = "config_error"
           /\ session = "none"
           /\ delivered = <<>> /\ fetchErrors = 0
           /\ saveCalls = <<>>
           /\ store = NoState /\ ~storeFaulted

\* C15 witness: listen was called with socket_type "PUB" while the publisher
\* already had a message, and has raised.
C15_Witness ==
    /\ adapter = "ZeroMQ" /\ socket_type = "PUB"
    /\ pc = "raised" /\ last = "config_error"
    /\ log # <<>>

\* --------------------------------------------------------------- C16
\* The transport has nothing the listener has not fetched yet.
NothingPending ==
    IF adapter = "Kinesis" THEN KinesisRecords(shard_iterator) = <<>> /\ response.Records = <<>>
    ELSE IF adapter = "RedisStream"
    THEN XRead(last_id) = <<>> /\ result = <<>> /\ outstanding = 1
    ELSE pos = Len(log)

\* C16 (as claimed): every blocking fetch is bounded: when the transport
\* delivers nothing more, the fetch still returns (empty) and the loop reaches
\* its next iteration.
C16_FetchAlwaysReturns ==
    (adapter \in Adapters /\ pc = "running" /\ NothingPending) => ENABLED EmptyFetch

\* --------------------------------------------------------------- C17
\* The fields of the envelope each listener builds around the decoded
\* payload before output.save; Kafka passes the decoded payload itself.
Envelope(a) ==
    CASE a = "Kafka" -> {}
      [] a = "RabbitMQ" -> {"data", "method", "properties"}
      [] a = "RedisPubSub" -> {"data", "channel"}
      [] a = "ZeroMQ" -> {"data", "topic", "syntax"}
      [] a = "Kinesis" -> {"data", "sequence_number"}
      [] a = "RedisStream" -> {"data", "stream_key", "message_id"}
      [] a = "RESTAPIPoll" -> {"data", "url", "method", "headers", "params"}

\* C17 (as claimed): every value handed to the sink is an envelope with the
\* decoded payload under data and at least one provenance field.
C17_SinkGetsEnvelope ==
    saveCalls # <<>>
        => /\ "data" \in Envelope(adapter)
           /\ Envelope(adapter) \ {"data"} # {}

\* --------------------------------------------------------------- C18
\* This step wrote the state store and moved exactly one of the two counters,
\* by exactly 1.
ExactlyOneIncrement ==
    \/ /\ store'.success_count = store.success_count + 1
       /\ store'.failure_count = store.failure_count
    \/ /\ store'.success_count = store.success_count
       /\ store'.failure_count = store.failure_count + 1

\* C18 (as claimed): with fetches and state-store calls that never raise,
\* every write moves exactly one counter by 1 and the writes are one per
\* message the listener forwarded or failed on.
C18_OneWritePerMessage ==
    [][(/\ store' # store
        /\ ~storeFaulted' /\ fetchErrors' = 0 /\ last' # "connect_error")
            => /\ ExactlyOneIncrement
               /\ store'.success_count + store'.failure_count
                    <= Cardinality(Elems(delivered'))]_vars

\* --------------------------------------------------------------- C19
\* C19: while no state-store call raises, the first write for an identity
\* without an entry is {success_count: 1, failure_count: 0} after a success
\* and {success_count: 0, failure_count: 1} after a failure, and the missing
\* entry does not make listen raise.
C19_FirstAccountingFromZero ==
    [][(~store.present /\ store'.present /\ ~storeFaulted')
            => /\ store'.success_count = (IF last' = "success" THEN 1 ELSE 0)
               /\ store'.failure_count = (IF last' = "success" THEN 0 ELSE 1)
               /\ pc' # "raised"]_vars

\* C19 witness: the first message of an identity without an entry was
\* malformed and the store now holds 0 successes and 1 failure.
C19_Witness ==
    /\ store.present /\ store.success_count = 0 /\ store.failure_count = 1
    /\ Len(delivered) = 1 /\ last = "failure_decode"
    /\ ~storeFaulted

\* --------------------------------------------------------------- C20
\* C20: the accounting is a get_state and a separate set_state.  The
\* persisted counts never exceed the messages accounted; with one listener on
\* the identity they equal them (no update is lost); with several listeners
\* they can fall behind (the witness).
C20_LostUpdateOnlyWhenShared ==
    /\ store.success_count + store.failure_count <= accounted
    /\ Len(listeners) = 1 => store.success_count + store.failure_count = accounted

\* C20 witness: two listeners share the identity, both have finished their
\* accounting, and the store counts fewer messages than they accounted.
C20_Witness ==
    /\ Len(listeners) = 2
    /\ \A k \in DOMAIN listeners : listeners[k].pc = "idle"
    /\ accounted = 2
    /\ store.success_count + store.failure_count = 1

\* --------------------------------------------------------------- C21
\* This step hands a read to the executor.
SubmitStep == outstanding' = outstanding + 1

\* Every entry the reads of this run have returned has been handed to the
\* sink.
EveryEntryForwarded == \A k \in DOMAIN delivered : delivered[k] \in Elems(Ids(saveCalls))

\* C21 (as claimed): a read is submitted only when the previous read has
\* returned and every entry of its result has been forwarded and accounted.
C21_SubmitAfterWholeResult ==
    [][SubmitStep => (outstanding = 0 /\ EveryEntryForwarded)]_vars

\* C21 (amended): at most one xread is outstanding, and none while a result
\* is being iterated: a read is submitted only when the previous read has
\* returned and the iteration over its result has ended, by reaching its end
\* or by an exception that abandons the entries left in it.
C21_AtMostOneRead ==
    /\ outstanding <= 1
    /\ outstanding = 1 => result = <<>>

\* C21 witness: a read is outstanding after the entries of an earlier read
\* went to the sink.
C21_Witness ==
    /\ adapter = "RedisStream" /\ outstanding = 1
    /\ Len(saveCalls) = 2 /\ last = "success"

\* --------------------------------------------------------------- C22
\* C22: _listen starts reading from the last_id argument when one is given,
\* else from the persisted last_id when a state exists and its last_id is
\* not null, else from "0"; started without the argument, as the public
\* listen does, it resumes from the persisted last_id whenever one exists.
C22_StartPosition ==
    [][(adapter = "RedisStream" /\ pc = "start" /\ pc' = "running")
            => last_id' = (CASE argLastId # NoId -> argLastId
                             [] argLastId = NoId /\ store.present /\ store.last_id # NoId
                                    -> store.last_id
                             [] OTHER -> 0)]_vars

\* C22 witness: a listener given an explicit last_id on an identity whose
\* persisted last_id is another ID starts from the argument.
C22_Witness ==
    /\ pc = "running" /\ last = "connected"
    /\ argLastId \notin {NoId, 0}
    /\ store.present /\ store.last_id \notin {NoId, argLastId}
    /\ last_id = argLastId

\* --------------------------------------------------------------- C23
\* C23: on a state store that starts empty, the persisted success_count
\* never exceeds the number of sink save calls that have returned, whichever
\* state-store calls raise.
C23_SuccessCountWithinSaves ==
    store.success_count <= Len(SinkReceived)

\* C23 witness: a save returned, the state write after it raised, the
\* failure path ran, and the count written is covered by the returned saves.
C23_Witness ==
    /\ storeFaulted /\ last = "failure_state"
    /\ store.success_count = 1 /\ Len(SinkReceived) = 2

\* --------------------------------------------------------------- C24
\* An exception was raised in this iteration of the while loop.
IterationRaised ==
    last' \in {"fetch_error", "failure_decode", "failure_sink", "failure_state", "escaped"}

LoopExceptionHandled ==
    last' \in {"fetch_error", "failure_decode", "failure_sink", "failure_state"}

PollStep ==
    /\ adapter = "RESTAPIPoll" /\ pc = "running"
    /\ (pos' # pos \/ fetchErrors' # fetchErrors)

\* The poll ended in "except HTTPError" or "except RequestException".
PollLogged == last' \in {"http_error", "request_error"}

\* The poll raised an exception that "except Exception" took.
PollOtherException ==
    last' \in {"failure_decode", "failure_sink", "failure_state", "escaped"}

SaveFailedStep ==
    /\ adapter = "RedisStream" /\ pc = "running"
    /\ Len(saveCalls') = Len(saveCalls) + 1 /\ last' = "failure_sink"

FailedSaves == {saveCalls[k].id : k \in {j \in DOMAIN saveCalls : ~saveCalls[j].ok}}

====
